---------------------------- MODULE Spec2Model ----------------------------
(***************************************************************************)
(* A model of publish_daily.py: the description extractor, the index merge *)
(* engine (parse, merge, regenerate, splice) and the publish orchestrator  *)
(* with its git steps.                                                     *)
(*                                                                         *)
(* Strings whose characters matter (the date strings) are sequences of     *)
(* one-character strings.  Documents are sequences of lexical tokens:      *)
(* every token is a record [k, s, n] with k the kind, s a sequence of      *)
(* strings and n a sequence of numbers.                                    *)
(***************************************************************************)
EXTENDS Integers, Sequences, FiniteSets, TLC

VARIABLES pc, args, source_exists, source_html, date_obj, description,
          index, emails, wrappers, exit_status, error, git, diff_rc,
          events, run0, pubs, runs

vars == <<pc, args, source_exists, source_html, date_obj, description,
          index, emails, wrappers, exit_status, error, git, diff_rc,
          events, run0, pubs, runs>>

(***************************************************************************)
(* Bounds of the model.                                                    *)
(***************************************************************************)
MaxRuns == 2
MaxCards == 2

(***************************************************************************)
(* Characters and strings.                                                 *)
(***************************************************************************)
Digits == <<"0", "1", "2", "3", "4", "5", "6", "7", "8", "9">>

IsDigit(c) == \E i \in 1..10 : Digits[i] = c

DigitVal(c) == (CHOOSE i \in 1..10 : Digits[i] = c) - 1

\* code point of a character (Python compares str by code point)
Ord(c) == IF IsDigit(c) THEN 48 + DigitVal(c)
          ELSE IF c = " " THEN 32
          ELSE IF c = "-" THEN 45
          ELSE 47

\* a < b for Python str
StrLess(a, b) ==
    \/ \E i \in 1..Len(a) :
          /\ i <= Len(b)
          /\ \A j \in 1..(i - 1) : a[j] = b[j]
          /\ Ord(a[i]) < Ord(b[i])
    \/ /\ Len(a) < Len(b)
       /\ \A j \in 1..Len(a) : a[j] = b[j]

RECURSIVE NumVal(_)
NumVal(ds) == IF ds = <<>> THEN 0
              ELSE 10 * NumVal(SubSeq(ds, 1, Len(ds) - 1)) + DigitVal(ds[Len(ds)])

AllDigits(ds) == \A i \in 1..Len(ds) : IsDigit(ds[i])

(***************************************************************************)
(* datetime.strptime(s, "%Y-%m-%d"): the format's regular expression is    *)
(*   (\d\d\d\d)-(1[0-2]|0[1-9]|[1-9])-(3[01]|[12]\d|0[1-9]|[1-9]| [1-9])   *)
(* it must consume the whole string, and the day must exist in the month.  *)
(***************************************************************************)
IsLeap(y) == (y % 4 = 0 /\ y % 100 # 0) \/ y % 400 = 0

DaysInMonth(y, m) == IF m = 2 THEN (IF IsLeap(y) THEN 29 ELSE 28)
                     ELSE IF m \in {4, 6, 9, 11} THEN 30 ELSE 31

MonthField(f) ==
    \/ /\ Len(f) = 2
       /\ AllDigits(f)
       /\ NumVal(f) \in 1..12
    \/ /\ Len(f) = 1
       /\ AllDigits(f)
       /\ NumVal(f) \in 1..9

DayField(f) ==
    \/ /\ Len(f) = 2
       /\ AllDigits(f)
       /\ NumVal(f) \in 1..31
    \/ /\ Len(f) = 2
       /\ f[1] = " "
       /\ IsDigit(f[2])
       /\ DigitVal(f[2]) \in 1..9
    \/ /\ Len(f) = 1
       /\ AllDigits(f)
       /\ NumVal(f) \in 1..9

DayVal(f) == IF f[1] = " " THEN DigitVal(f[2]) ELSE NumVal(f)

NoDate == [ok |-> FALSE, year |-> 0, month |-> 0, day |-> 0]

strptime(s) ==
    IF ~(Len(s) >= 8 /\ AllDigits(SubSeq(s, 1, 4)) /\ s[5] = "-") THEN NoDate
    ELSE LET mlen == IF s[7] = "-" THEN 1 ELSE 2
             mf   == SubSeq(s, 6, 5 + mlen)
             df   == SubSeq(s, 7 + mlen, Len(s))
         IN  IF ~(s[6 + mlen] = "-" /\ MonthField(mf) /\ DayField(df)) THEN NoDate
             ELSE LET y == NumVal(SubSeq(s, 1, 4))
                      m == NumVal(mf)
                      d == DayVal(df)
                  IN  IF y >= 1 /\ d <= DaysInMonth(y, m)
                      THEN [ok |-> TRUE, year |-> y, month |-> m, day |-> d]
                      ELSE NoDate

\* date_obj.strftime('%A') as a number, 0 = Monday (date.weekday())
Weekday(y, m, d) ==
    LET t  == <<0, 3, 2, 5, 0, 3, 5, 1, 4, 6, 2, 4>>
        yy == IF m < 3 THEN y - 1 ELSE y
    IN  (yy + yy \div 4 - yy \div 100 + yy \div 400 + t[m] + d + 6) % 7

(***************************************************************************)
(* Tokens of the documents.                                                *)
(***************************************************************************)
Tok(k, s, n) == [k |-> k, s |-> s, n |-> n]

ENTRY_START == Tok("start", <<>>, <<>>)
ENTRY_END == Tok("end", <<>>, <<>>)

\* a run of whitespace
WS == Tok("ws", <<>>, <<>>)

\* opaque text
Text(t) == Tok("text", <<t>>, <<>>)

\* the end of a card: </p> </a> </div>
CardClose == Tok("close", <<>>, <<>>)

\* the head of a card, up to and including <p class="update-desc">: the
\* href's date string and the text of the update-date div
CardOpen(date_str, display) == Tok("open", date_str, display)

\* format_date_display: month, day, year, weekday
format_date_display(d) == <<d.month, d.day, d.year, Weekday(d.year, d.month, d.day)>>

\* format_month_header: month, year
format_month_header(d) == <<d.month, d.year>>

MonthHeader(d) == Tok("h4", <<>>, format_month_header(d))

\* (\d{4}-\d{2}-\d{2}) of card_pattern
CardDateShape(s) ==
    /\ Len(s) = 10
    /\ \A i \in {1, 2, 3, 4, 6, 7, 9, 10} : IsDigit(s[i])
    /\ s[5] = "-"
    /\ s[8] = "-"

\* str.find + 1: the first index of the token, 0 when it does not occur
Find(html, tok) ==
    IF \E i \in 1..Len(html) : html[i] = tok
    THEN CHOOSE i \in 1..Len(html) : html[i] = tok /\ \A j \in 1..(i - 1) : html[j] # tok
    ELSE 0

\* str.strip
RECURSIVE strip(_)
strip(d) == IF d = <<>> THEN d
            ELSE IF d[1] = WS THEN strip(Tail(d))
            ELSE IF d[Len(d)] = WS THEN strip(SubSeq(d, 1, Len(d) - 1))
            ELSE d

Put(entries, date_str, desc) ==
    [x \in (DOMAIN entries) \cup {date_str} |->
        IF x = date_str THEN desc ELSE entries[x]]

\* card_pattern.finditer(content) from position i on, filling entries
RECURSIVE ScanCards(_, _, _)
ScanCards(content, i, entries) ==
    IF i > Len(content) THEN entries
    ELSE IF content[i].k = "open" /\ CardDateShape(content[i].s)
         THEN IF \E j \in (i + 1)..Len(content) : content[j] = CardClose
              THEN LET j == CHOOSE j \in (i + 1)..Len(content) :
                               /\ content[j] = CardClose
                               /\ \A l \in (i + 1)..(j - 1) : content[l] # CardClose
                   IN  ScanCards(content, j + 1,
                           Put(entries, content[i].s, strip(SubSeq(content, i + 1, j - 1))))
              ELSE entries
         ELSE ScanCards(content, i + 1, entries)

NoEntries == [x \in {} |-> <<>>]

parse_existing_entries(index_html) ==
    LET start_idx == Find(index_html, ENTRY_START)
        end_idx   == Find(index_html, ENTRY_END)
    IN  IF start_idx = 0 \/ end_idx = 0 THEN NoEntries
        ELSE ScanCards(SubSeq(index_html, start_idx + 1, end_idx - 1), 1, NoEntries)

generate_card(date_str, d, desc) ==
    <<CardOpen(date_str, format_date_display(d))>> \o desc \o <<CardClose>>

\* sorted(keys, reverse=True)
RECURSIVE SortedDesc(_)
SortedDesc(S) ==
    IF S = {} THEN <<>>
    ELSE LET m == CHOOSE x \in S : \A y \in S \ {x} : StrLess(y, x)
         IN  <<m>> \o SortedDesc(S \ {m})

\* the loop of generate_entries_html over sorted_dates[i..], current_month = cur
RECURSIVE EntryLines(_, _, _, _)
EntryLines(entries, sorted_dates, i, cur) ==
    IF i > Len(sorted_dates) THEN <<>>
    ELSE LET date_str  == sorted_dates[i]
             d         == strptime(date_str)
             month_key == <<d.year, d.month>>
             header    == IF month_key # cur THEN <<WS, MonthHeader(d)>> ELSE <<>>
         IN  header \o <<WS>> \o generate_card(date_str, d, entries[date_str])
                    \o EntryLines(entries, sorted_dates, i + 1, month_key)

\* ok = FALSE: strptime raised ValueError on one of the keys
generate_entries_html(entries) ==
    IF \E x \in DOMAIN entries : ~strptime(x).ok
    THEN [ok |-> FALSE, html |-> <<>>]
    ELSE [ok |-> TRUE,
          html |-> EntryLines(entries, SortedDesc(DOMAIN entries), 1, <<0, 0>>)]

HasMarkersStartOnly(html) == Find(html, ENTRY_START) # 0

\* not (ENTRY_START not in html or ENTRY_END not in html)
HasMarkers(html) == Find(html, ENTRY_START) # 0 /\ Find(html, ENTRY_END) # 0

\* html[end_idx:]; with end_idx = -1 (find found nothing) the slice is the
\* end of the text
SliceFrom(html, idx) == IF idx = 0 THEN SubSeq(html, Len(html), Len(html))
                        ELSE SubSeq(html, idx, Len(html))

\* new_html of update_index
Splice(html, entries_html) ==
    SubSeq(html, 1, Find(html, ENTRY_START)) \o entries_html \o <<WS>>
        \o SliceFrom(html, Find(html, ENTRY_END))


(***************************************************************************)
(* extract_description.  An email is a sequence of tokens: tags, runs of   *)
(* whitespace, words, all-capital words, numbers and the punctuation the   *)
(* patterns name.  Words and numbers of the emails considered are always   *)
(* separated by whitespace, a tag or punctuation.                          *)
(***************************************************************************)
Tag == Tok("tag", <<>>, <<>>)
Word(w) == Tok("word", <<w>>, <<>>)
Upper(w) == Tok("upper", <<w>>, <<>>)
Num(n) == Tok("num", <<>>, <<n>>)
Colon == Tok(":", <<>>, <<>>)
Slash100 == Tok("/100", <<>>, <<>>)
\* "-" or the en dash
Dash(c) == Tok("dash", <<c>>, <<>>)

\* re.sub(r"<[^>]+>", " ", email_html)
StripTags(html) == [i \in 1..Len(html) |-> IF html[i].k = "tag" THEN WS ELSE html[i]]

\* re.sub(r"\s+", " ", text)
RECURSIVE CollapseWS(_)
CollapseWS(text) ==
    IF Len(text) < 2 THEN text
    ELSE IF text[1] = WS /\ text[2] = WS THEN CollapseWS(Tail(text))
    ELSE <<text[1]>> \o CollapseWS(Tail(text))

At(text, i, tok) == i \in 1..Len(text) /\ text[i] = tok

KindAt(text, i, k) == i \in 1..Len(text) /\ text[i].k = k

\* \s* at position i of a text whose whitespace is collapsed
SkipWS(text, i) == IF At(text, i, WS) THEN i + 1 ELSE i

\* the leading capitals of a word
UpperPrefix(w) == CASE w = "Crypto" -> "C"
                    [] w = "Stock" -> "S"
                    [] w = "Market" -> "M"
                    [] w = "Total" -> "T"
                    [] w = "Tickers" -> "T"
                    [] w = "Fear" -> "F"
                    [] OTHER -> ""

\* str.title() of one word of capitals
Title(w) == CASE w = "FEAR" -> "Fear"
              [] w = "EXTREME" -> "Extreme"
              [] w = "GREED" -> "Greed"
              [] w = "NEUTRAL" -> "Neutral"
              [] OTHER -> w

\* ([A-Z][A-Z ]*) from position i, as the words it holds; first: no
\* character is matched yet
RECURSIVE LabelFrom(_, _, _)
LabelFrom(text, i, first) ==
    IF i > Len(text) THEN <<>>
    ELSE IF text[i].k = "upper" THEN <<text[i].s[1]>> \o LabelFrom(text, i + 1, FALSE)
    ELSE IF text[i] = WS /\ ~first THEN LabelFrom(text, i + 1, FALSE)
    ELSE IF text[i].k = "word" /\ UpperPrefix(text[i].s[1]) # ""
         THEN <<UpperPrefix(text[i].s[1])>>
    ELSE <<>>

NoMatch == [ok |-> FALSE, n |-> 0, label |-> <<>>]

\* \s*:\s*(\d+)/100\s*[-–]\s*([A-Z][A-Z ]*) at position i
ScoreLabelAt(text, i) ==
    LET a == SkipWS(text, i)
        b == SkipWS(text, a + 1)
        c == SkipWS(text, b + 2)
        e == SkipWS(text, c + 1)
        l == LabelFrom(text, e, TRUE)
    IN  IF /\ At(text, a, Colon)
           /\ KindAt(text, b, "num")
           /\ At(text, b + 1, Slash100)
           /\ KindAt(text, c, "dash")
           /\ l # <<>>
        THEN [ok |-> TRUE, n |-> text[b].n[1], label |-> l]
        ELSE NoMatch

\* Total Tickers\s*:\s*(\d+) at position i
TickersAt(text, i) ==
    LET a == SkipWS(text, i + 3)
        b == SkipWS(text, a + 1)
    IN  IF /\ At(text, i, Word("Total"))
           /\ At(text, i + 1, WS)
           /\ At(text, i + 2, Word("Tickers"))
           /\ At(text, a, Colon)
           /\ KindAt(text, b, "num")
        THEN [ok |-> TRUE, n |-> text[b].n[1], label |-> <<>>]
        ELSE NoMatch

\* Stock Market\s*:\s*(\d+)/100\s*[-–]\s*([A-Z][A-Z ]*) at position i
StockAt(text, i) ==
    IF /\ At(text, i, Word("Stock"))
       /\ At(text, i + 1, WS)
       /\ At(text, i + 2, Word("Market"))
    THEN ScoreLabelAt(text, i + 3)
    ELSE NoMatch

\* Crypto(?:\s+Market)?\s*:\s*(\d+)/100\s*[-–]\s*([A-Z][A-Z ]*)
CryptoAt(text, i) ==
    IF ~At(text, i, Word("Crypto")) THEN NoMatch
    ELSE IF At(text, i + 1, WS) /\ At(text, i + 2, Word("Market"))
              /\ ScoreLabelAt(text, i + 3).ok
         THEN ScoreLabelAt(text, i + 3)
         ELSE ScoreLabelAt(text, i + 1)

\* (\d+)\s+trades?\s+in\s+last\s+\d+\s+days? at position i
TradesAt(text, i) ==
    IF /\ KindAt(text, i, "num")
       /\ At(text, i + 1, WS)
       /\ (At(text, i + 2, Word("trades")) \/ At(text, i + 2, Word("trade")))
       /\ At(text, i + 3, WS)
       /\ At(text, i + 4, Word("in"))
       /\ At(text, i + 5, WS)
       /\ At(text, i + 6, Word("last"))
       /\ At(text, i + 7, WS)
       /\ KindAt(text, i + 8, "num")
       /\ At(text, i + 9, WS)
       /\ KindAt(text, i + 10, "word")
       /\ text[i + 10].s[1] \in {"day", "days", "daytime"}
    THEN [ok |-> TRUE, n |-> text[i].n[1], label |-> <<>>]
    ELSE NoMatch

PatternAt(p, text, i) == CASE p = 1 -> TickersAt(text, i)
                           [] p = 2 -> StockAt(text, i)
                           [] p = 3 -> CryptoAt(text, i)
                           [] p = 4 -> TradesAt(text, i)

\* re.search: the leftmost match
Search(p, text) ==
    IF \E i \in 1..Len(text) : PatternAt(p, text, i).ok
    THEN PatternAt(p, text, CHOOSE i \in 1..Len(text) :
                                /\ PatternAt(p, text, i).ok
                                /\ \A j \in 1..(i - 1) : ~PatternAt(p, text, j).ok)
    ELSE NoMatch

TitleAll(l) == [i \in 1..Len(l) |-> Title(l[i])]

\* the fragment parts.append adds for pattern p
Fragment(p, m) == CASE p = 1 -> Tok("tickers analyzed", <<>>, <<m.n>>)
                    [] p = 2 -> Tok("Market sentiment", TitleAll(m.label), <<m.n>>)
                    [] p = 3 -> Tok("Crypto", TitleAll(m.label), <<m.n>>)
                    [] p = 4 -> Tok("congress trades tracked", <<>>, <<m.n>>)

\* " &middot; "
Middot == Tok("middot", <<>>, <<>>)

Fallback == <<Text("Daily market predictions and analysis")>>

RECURSIVE Join(_)
Join(parts) == IF Len(parts) = 0 THEN <<>>
               ELSE IF Len(parts) = 1 THEN <<parts[1]>>
               ELSE <<parts[1], Middot>> \o Join(Tail(parts))

\* parts after the patterns p..4 are tried in turn
RECURSIVE Parts(_, _)
Parts(text, p) ==
    IF p > 4 THEN <<>>
    ELSE LET m == Search(p, text)
         IN  (IF m.ok THEN <<Fragment(p, m)>> ELSE <<>>) \o Parts(text, p + 1)

\* the patterns applied to the raw HTML, tags and line breaks left in
extract_description_raw(email_html) ==
    LET parts == Parts(email_html, 1)
    IN  IF parts # <<>> THEN Join(parts) ELSE Fallback

extract_description(email_html) ==
    LET text  == CollapseWS(StripTags(email_html))
        parts == Parts(text, 1)
    IN  IF parts # <<>> THEN Join(parts) ELSE Fallback


(***************************************************************************)
(* generate_wrapper_page: the values substituted into the template         *)
(* (month name and short month as the month's number, day, year, and the   *)
(* date string of the iframe's src).                                       *)
(***************************************************************************)
generate_wrapper_page(date_str, d) == Tok("wrapper", date_str, <<d.month, d.day, d.year>>)

(***************************************************************************)
(* The inputs of the model.                                                *)
(***************************************************************************)
D_2026_02_18 == <<"2", "0", "2", "6", "-", "0", "2", "-", "1", "8">>
D_2026_01_15 == <<"2", "0", "2", "6", "-", "0", "1", "-", "1", "5">>
D_2026_2_8 == <<"2", "0", "2", "6", "-", "2", "-", "8">>
D_2026_02_30 == <<"2", "0", "2", "6", "-", "0", "2", "-", "3", "0">>
D_2026_13_01 == <<"2", "0", "2", "6", "-", "1", "3", "-", "0", "1">>

\* values of --date
DateArgs == {D_2026_02_18, D_2026_2_8, D_2026_02_30, D_2026_13_01}

\* contents of the --source file
EmailFull ==
    <<Tag, Word("Total"), WS, Word("Tickers"), Colon, WS, Num(630), Tag, WS,
      Word("Stock"), WS, Word("Market"), Colon, WS, Num(40), Slash100, WS, Dash("-"), WS,
      Upper("FEAR"), Text("."), Tag, Word("Crypto"), WS, Word("Market"), Colon, WS, Num(9),
      Slash100, WS, Dash("-"), WS, Upper("EXTREME"), WS, Upper("FEAR"), Text("."), Tag,
      Num(50), WS, Word("trades"), WS, Word("in"), WS, Word("last"), WS, Num(14), WS,
      Word("days"), Tag>>

EmailPlain == <<Tag, Word("hello"), WS, Word("world"), Tag>>

SourceFiles == {EmailFull, EmailPlain}

\* exit statuses of a git command
GitStatuses == {0, 1, 128}

\* exit statuses of git diff --cached --quiet: nothing staged, or a staged diff
DiffStatuses == {0, 1}

\* cards and other text found between the markers of an index document
HandCard(date_str, desc) == <<CardOpen(date_str, <<>>)>> \o desc \o <<CardClose>>

RegionItems ==
    { generate_card(D_2026_02_18, strptime(D_2026_02_18), <<Text("old")>>),
      HandCard(D_2026_01_15, <<WS, Text("by hand"), WS>>),
      HandCard(D_2026_02_30, <<Text("old")>>),
      <<WS, CardOpen(D_2026_01_15, <<>>), Text("not a card")>> }

RECURSIVE Regions(_)
Regions(n) ==
    IF n = 0 THEN {<<>>}
    ELSE Regions(n - 1) \cup
         {r \o it : r \in Regions(n - 1), it \in RegionItems}

Layout(l, region) ==
    CASE l = "both" ->
            <<Text("head"), ENTRY_START>> \o region \o <<ENTRY_END, Text("foot")>>
      [] l = "no start" ->
            <<Text("head")>> \o region \o <<ENTRY_END, Text("foot")>>
      [] l = "no end" ->
            <<Text("head"), ENTRY_START>> \o region \o <<Text("foot")>>
      [] l = "end first" ->
            <<Text("head"), ENTRY_END, Text("mid"), ENTRY_START>> \o region
                \o <<Text("foot")>>
      [] l = "twice" ->
            <<Text("head"), ENTRY_START>> \o region
                \o <<ENTRY_END, Text("foot"), ENTRY_START, ENTRY_END>>

Layouts == {"both", "no start", "no end", "end first", "twice"}

IndexDocuments == {Layout(l, r) : l \in Layouts, r \in Regions(MaxCards)}

NoFiles == [x \in {} |-> <<>>]

(***************************************************************************)
(* The orchestrator, main(), one action per step; the files it owns are    *)
(* index (INDEX_PATH), emails (EMAILS_DIR) and wrappers (DAILY_DIR).       *)
(* exit_status is -1 while the process runs.  events lists the effects of  *)
(* the run in order, run0 holds the files as the run found them, pubs the  *)
(* index updates that were written.                                        *)
(***************************************************************************)
Init ==
    /\ pc = "idle"
    /\ args = [date |-> <<>>, no_push |-> FALSE]
    /\ source_exists = FALSE
    /\ source_html = <<>>
    /\ date_obj = NoDate
    /\ description = <<>>
    /\ index \in IndexDocuments
    /\ emails = NoFiles
    /\ wrappers = NoFiles
    /\ exit_status = -1
    /\ error = ""
    /\ git = <<>>
    /\ diff_rc = -1
    /\ events = <<>>
    /\ run0 = [index |-> index, emails |-> emails, wrappers |-> wrappers]
    /\ pubs = <<>>
    /\ runs = 0

\* sys.exit(status), or an uncaught exception (status 1)
Exit(status, why) ==
    /\ pc' = "exited"
    /\ exit_status' = status
    /\ error' = why

\* a new invocation: parse_args
parse_args ==
    /\ pc \in {"idle", "done", "exited"}
    /\ runs < MaxRuns
    /\ runs' = runs + 1
    /\ \E d \in DateArgs, np \in BOOLEAN : args' = [date |-> d, no_push |-> np]
    /\ \/ /\ source_exists' = FALSE
          /\ source_html' = <<>>
       \/ /\ source_exists' = TRUE
          /\ source_html' \in SourceFiles
    /\ pc' = "validate"
    /\ date_obj' = NoDate
    /\ description' = <<>>
    /\ exit_status' = -1
    /\ error' = ""
    /\ git' = <<>>
    /\ diff_rc' = -1
    /\ events' = <<>>
    /\ run0' = [index |-> index, emails |-> emails, wrappers |-> wrappers]
    /\ UNCHANGED <<index, emails, wrappers, pubs>>

\* the two checks in the other order
ValidateDate_source_first ==
    /\ pc = "validate"
    /\ IF ~source_exists
       THEN /\ Exit(1, "Source file not found")
            /\ UNCHANGED date_obj
       ELSE IF strptime(args.date).ok
            THEN /\ date_obj' = strptime(args.date)
                 /\ pc' = "check_source"
                 /\ UNCHANGED <<exit_status, error>>
            ELSE /\ Exit(1, "Invalid date format")
                 /\ UNCHANGED date_obj
    /\ UNCHANGED <<args, source_exists, source_html, description, index, emails,
                   wrappers, git, diff_rc, events, run0, pubs, runs>>

ValidateDate ==
    /\ pc = "validate"
    /\ IF strptime(args.date).ok
       THEN /\ date_obj' = strptime(args.date)
            /\ pc' = "check_source"
            /\ UNCHANGED <<exit_status, error>>
       ELSE /\ Exit(1, "Invalid date format")
            /\ UNCHANGED date_obj
    /\ UNCHANGED <<args, source_exists, source_html, description, index, emails,
                   wrappers, git, diff_rc, events, run0, pubs, runs>>

CheckSource ==
    /\ pc = "check_source"
    /\ IF source_exists
       THEN /\ pc' = "copy"
            /\ UNCHANGED <<exit_status, error>>
       ELSE Exit(1, "Source file not found")
    /\ UNCHANGED <<args, source_exists, source_html, date_obj, description, index,
                   emails, wrappers, git, diff_rc, events, run0, pubs, runs>>

\* os.makedirs and shutil.copy2
CopySource ==
    /\ pc = "copy"
    /\ emails' = Put(emails, args.date, source_html)
    /\ events' = Append(events, "copy")
    /\ pc' = "extract"
    /\ UNCHANGED <<args, source_exists, source_html, date_obj, description, index,
                   wrappers, exit_status, error, git, diff_rc, run0, pubs, runs>>

\* read the copy back and extract the description
ExtractDescription ==
    /\ pc = "extract"
    /\ description' = extract_description(emails[args.date])
    /\ pc' = "wrapper"
    /\ UNCHANGED <<args, source_exists, source_html, date_obj, index, emails,
                   wrappers, exit_status, error, git, diff_rc, events, run0, pubs, runs>>

WriteWrapper ==
    /\ pc = "wrapper"
    /\ wrappers' = Put(wrappers, args.date, generate_wrapper_page(args.date, date_obj))
    /\ events' = Append(events, "wrapper")
    /\ pc' = "index"
    /\ UNCHANGED <<args, source_exists, source_html, date_obj, description, index,
                   emails, exit_status, error, git, diff_rc, run0, pubs, runs>>

\* what update_index(date_str, desc) does to the document html: the status
\* it exits with (-1: it returns) and the document it leaves
UpdateResult(html, date_str, desc) ==
    IF ~HasMarkers(html)
    THEN [status |-> 1, why |-> "Markers not found", html |-> html]
    ELSE LET entries == Put(parse_existing_entries(html), date_str, desc)
             g       == generate_entries_html(entries)
         IN  IF ~g.ok
             THEN [status |-> 1, why |-> "ValueError", html |-> html]
             ELSE [status |-> -1, why |-> "", html |-> Splice(html, g.html)]

update_index ==
    /\ pc = "index"
    /\ LET r == UpdateResult(index, args.date, description)
       IN  IF r.status = -1
           THEN /\ index' = r.html
                /\ events' = Append(events, "index")
                /\ pubs' = Append(pubs, [date |-> args.date, desc |-> description,
                                         before |-> index, after |-> r.html])
                /\ pc' = "git"
                /\ UNCHANGED <<exit_status, error>>
           ELSE /\ Exit(r.status, r.why)
                /\ index' = r.html
                /\ UNCHANGED <<events, pubs>>
    /\ UNCHANGED <<args, source_exists, source_html, date_obj, description, emails,
                   wrappers, git, diff_rc, run0, runs>>

\* --no-push
SkipGit ==
    /\ pc = "git"
    /\ args.no_push
    /\ pc' = "done"
    /\ exit_status' = 0
    /\ UNCHANGED <<args, source_exists, source_html, date_obj, description, index,
                   emails, wrappers, error, git, diff_rc, events, run0, pubs, runs>>

\* the exit status of the process when subprocess.run(check=True) raises
\* CalledProcessError for a command that returned rc
CalledProcessErrorStatus(rc) == 1

\* subprocess.run without check=True: the status is ignored
RunUnchecked(cmd, here, next) ==
    /\ pc = here
    /\ \E rc \in GitStatuses :
          /\ git' = Append(git, [cmd |-> cmd, rc |-> rc])
          /\ events' = Append(events, cmd)
          /\ pc' = next
          /\ exit_status' = IF next = "done" THEN 0 ELSE exit_status
          /\ UNCHANGED error
    /\ UNCHANGED <<args, source_exists, source_html, date_obj, description, index,
                   emails, wrappers, diff_rc, run0, pubs, runs>>

\* subprocess.run([...], check=True) at step here, going to step next
RunChecked(cmd, here, next) ==
    /\ pc = here
    /\ \E rc \in GitStatuses :
          /\ git' = Append(git, [cmd |-> cmd, rc |-> rc])
          /\ events' = Append(events, cmd)
          /\ IF rc = 0
             THEN /\ pc' = next
                  /\ exit_status' = IF next = "done" THEN 0 ELSE exit_status
                  /\ UNCHANGED error
             ELSE Exit(CalledProcessErrorStatus(rc), "CalledProcessError")
    /\ UNCHANGED <<args, source_exists, source_html, date_obj, description, index,
                   emails, wrappers, diff_rc, run0, pubs, runs>>

GitAdd ==
    /\ ~args.no_push
    /\ RunChecked("add", "git", "git_diff")

\* pull and push outside the if: performed whether or not something is staged
AfterDiff_always_push(rc) == IF rc # 0 THEN "git_commit" ELSE "git_pull"

\* where main goes after git diff --cached --quiet returned rc
AfterDiff(rc) == IF rc # 0 THEN "git_commit" ELSE "done"

\* git diff --cached --quiet, unchecked
GitDiff ==
    /\ pc = "git_diff"
    /\ \E rc \in DiffStatuses :
          /\ diff_rc' = rc
          /\ git' = Append(git, [cmd |-> "diff", rc |-> rc])
          /\ events' = Append(events, "diff")
          /\ pc' = AfterDiff(rc)
          /\ exit_status' = IF AfterDiff(rc) = "done" THEN 0 ELSE exit_status
    /\ UNCHANGED <<args, source_exists, source_html, date_obj, description, index,
                   emails, wrappers, error, run0, pubs, runs>>

GitCommit == RunChecked("commit", "git_commit", "git_pull")

GitPull == RunChecked("pull", "git_pull", "git_push")

GitPush == RunChecked("push", "git_push", "done")

Next ==
    \/ parse_args
    \/ ValidateDate
    \/ CheckSource
    \/ CopySource
    \/ ExtractDescription
    \/ WriteWrapper
    \/ update_index
    \/ SkipGit
    \/ GitAdd
    \/ GitDiff
    \/ GitCommit
    \/ GitPull
    \/ GitPush

Spec == Init /\ [][Next]_vars


(***************************************************************************)
(* extract_description on its own: a bounded set of email texts, built     *)
(* from the four statistics in several spellings.                          *)
(***************************************************************************)
TickerTexts ==
    { <<>>,
      <<Word("Total"), WS, Word("Tickers"), Colon, WS, Num(630)>>,
      <<Word("Total"), Tag, Word("Tickers"), Tag, WS, Colon, Num(7)>>,
      <<Word("Total"), WS, Word("Tickers"), WS, Num(630)>> }

StockTexts ==
    { <<>>,
      <<Word("Stock"), WS, Word("Market"), Colon, WS, Num(40), Slash100, WS, Dash("-"),
        WS, Upper("FEAR")>>,
      <<Word("Stock"), WS, Word("Market"), WS, Colon, Num(81), Slash100, Dash("en dash"),
        Upper("EXTREME"), WS, Upper("GREED")>>,
      <<Word("Stock"), WS, Word("Market"), Colon, WS, Num(40), Slash100, WS, Dash("-"),
        WS, Word("Fear")>>,
      <<Word("Stock"), WS, Word("Market"), Colon, WS, Num(40), Slash100, WS, Dash("-"),
        WS, Word("fear")>>,
      <<Word("Stock"), WS, Word("Market"), Colon, WS, Num(40), WS, Slash100, WS, Dash("-"),
        WS, Upper("FEAR")>> }

CryptoTexts ==
    { <<>>,
      <<Word("Crypto"), WS, Word("Market"), Colon, WS, Num(9), Slash100, WS, Dash("-"),
        WS, Upper("EXTREME"), WS, Upper("FEAR")>>,
      <<Word("Crypto"), Colon, WS, Num(55), Slash100, WS, Dash("-"), WS, Upper("NEUTRAL")>>,
      <<Word("Crypto"), WS, Word("Market"), WS, Num(9), Slash100, WS, Dash("-"),
        WS, Upper("FEAR")>> }

TradeTexts ==
    { <<>>,
      <<Num(50), WS, Word("trades"), WS, Word("in"), WS, Word("last"), WS, Num(14), WS,
        Word("days")>>,
      <<Num(1), Tag, Word("trade"), WS, Word("in"), WS, Word("last"), WS, Num(1), WS,
        Word("day")>>,
      <<Num(50), WS, Word("trades"), WS, Word("last"), WS, Num(14), WS, Word("days")>> }

\* what stands between two statistics
Glue == {<<WS>>, <<Tag>>, <<Tag, WS, Tag>>}

ExtractInputs ==
    {a \o g \o b \o g \o c \o g \o d :
        a \in TickerTexts, b \in StockTexts, c \in CryptoTexts, d \in TradeTexts,
        g \in Glue}
    \cup
    {d \o g \o c \o g \o b \o g \o a :
        a \in TickerTexts, b \in StockTexts, c \in CryptoTexts, d \in TradeTexts,
        g \in Glue}

InitExtract ==
    /\ pc = "extract_in"
    /\ args = [date |-> <<>>, no_push |-> TRUE]
    /\ source_exists = TRUE
    /\ source_html \in ExtractInputs
    /\ date_obj = NoDate
    /\ description = <<>>
    /\ index = <<>>
    /\ emails = NoFiles
    /\ wrappers = NoFiles
    /\ exit_status = -1
    /\ error = ""
    /\ git = <<>>
    /\ diff_rc = -1
    /\ events = <<>>
    /\ run0 = [index |-> index, emails |-> emails, wrappers |-> wrappers]
    /\ pubs = <<>>
    /\ runs = 0

ExtractCall ==
    /\ pc = "extract_in"
    /\ description' = extract_description(source_html)
    /\ pc' = "extract_out"
    /\ UNCHANGED <<args, source_exists, source_html, date_obj, index, emails,
                   wrappers, exit_status, error, git, diff_rc, events, run0, pubs, runs>>

NextExtract == ExtractCall

SpecExtract == InitExtract /\ [][NextExtract]_vars


(***************************************************************************)
(* Vocabulary of the properties.                                           *)
(***************************************************************************)
Occurs(html, tok) == \E i \in 1..Len(html) : html[i] = tok

\* the text before the first start marker and after the first end marker
BeforeStart(html) == SubSeq(html, 1, Find(html, ENTRY_START) - 1)

AfterEnd(html) == SubSeq(html, Find(html, ENTRY_END) + 1, Len(html))

\* the headers and the card heads of a region, card bodies skipped
RECURSIVE TopLevel(_, _)
TopLevel(html, i) ==
    IF i > Len(html) THEN <<>>
    ELSE IF html[i].k = "open"
         THEN IF \E j \in (i + 1)..Len(html) : html[j] = CardClose
              THEN <<html[i]>> \o TopLevel(html,
                       1 + CHOOSE j \in (i + 1)..Len(html) :
                               /\ html[j] = CardClose
                               /\ \A l \in (i + 1)..(j - 1) : html[l] # CardClose)
              ELSE <<html[i]>>
         ELSE IF html[i].k = "h4" THEN <<html[i]>> \o TopLevel(html, i + 1)
         ELSE TopLevel(html, i + 1)

IsCard(tok) == tok.k = "open"

IsHeader(tok) == tok.k = "h4"

\* the calendar date of a card, as a number
CardDay(tok) == LET d == strptime(tok.s)
                IN  d.year * 10000 + d.month * 100 + d.day

CardMonth(tok) == LET d == strptime(tok.s) IN <<d.month, d.year>>

HeaderMonth(tok) == tok.n[2] * 100 + tok.n[1]

\* the cards between the markers of a document
CardsOf(html) ==
    SelectSeq(TopLevel(SubSeq(html, Find(html, ENTRY_START) + 1,
                              Find(html, ENTRY_END) - 1), 1), IsCard)

\* the region of the i-th index update
Regenerated(i) ==
    TopLevel(generate_entries_html(
        Put(parse_existing_entries(pubs[i].before), pubs[i].date, pubs[i].desc)).html, 1)

GitCommands == {"add", "commit", "pull", "push"}

FilesAsFound ==
    /\ index = run0.index
    /\ emails = run0.emails
    /\ wrappers = run0.wrappers

\* update_index was called in this run and is over
UpdateIndexOver ==
    /\ events # <<>>
    /\ \E i \in 1..Len(events) : events[i] = "wrapper"
    /\ pc # "index"

(***************************************************************************)
(* C1.  After update_index has written the index, the entries that         *)
(* parse_existing_entries recovers from the written document are those it  *)
(* recovered from the document read, with exactly the target date's entry  *)
(* inserted or replaced; this after every publish of a sequence.           *)
(***************************************************************************)
C1_EntriesPreserved ==
    \A i \in 1..Len(pubs) :
        parse_existing_entries(pubs[i].after)
            = Put(parse_existing_entries(pubs[i].before), pubs[i].date, pubs[i].desc)

(***************************************************************************)
(* C2.  The region generate_entries_html produces for the merged entries   *)
(* lists the cards in strictly descending calendar order, has exactly one  *)
(* header per (year, month), every header is followed only by cards of its *)
(* month, and the headers descend.                                         *)
(***************************************************************************)
C2_DescendingByMonth ==
    \A i \in 1..Len(pubs) :
        LET g       == Regenerated(i)
            cards   == SelectSeq(g, IsCard)
            headers == SelectSeq(g, IsHeader)
        IN  /\ \A a, b \in 1..Len(cards) : a < b => CardDay(cards[a]) > CardDay(cards[b])
            /\ Len(headers) = Cardinality({CardMonth(cards[a]) : a \in 1..Len(cards)})
            /\ g # <<>> => IsHeader(g[1])
            /\ \A a, b \in 1..Len(g) :
                  (/\ a < b
                   /\ IsHeader(g[a])
                   /\ IsCard(g[b])
                   /\ \A c \in (a + 1)..(b - 1) : IsCard(g[c]))
                  => CardMonth(g[b]) = g[a].n
            /\ \A a, b \in 1..Len(headers) :
                  a < b => HeaderMonth(headers[a]) > HeaderMonth(headers[b])

(***************************************************************************)
(* C3.  For a document holding both markers, the document update_index     *)
(* writes has the same text before the start marker and the same text      *)
(* after the end marker as the document it read.                           *)
(***************************************************************************)
C3_OutsideUnchanged ==
    \A i \in 1..Len(pubs) :
        /\ BeforeStart(pubs[i].after) = BeforeStart(pubs[i].before)
        /\ AfterEnd(pubs[i].after) = AfterEnd(pubs[i].before)

(***************************************************************************)
(* C4.  When the index document lacks the start marker or the end marker,  *)
(* update_index ends the process with status 1 and the document stays as   *)
(* it was read: the run writes nothing to it and goes no further.          *)
(***************************************************************************)
C4_MissingMarkersFatal ==
    (pc # "idle" /\ ~(Occurs(run0.index, ENTRY_START) /\ Occurs(run0.index, ENTRY_END)))
    => /\ index = run0.index
       /\ pc \in {"validate", "check_source", "copy", "extract", "wrapper", "index", "exited"}
       /\ UpdateIndexOver => (pc = "exited" /\ exit_status = 1)

C4_Witness ==
    /\ pc = "exited"
    /\ UpdateIndexOver
    /\ Occurs(index, ENTRY_START)
    /\ ~Occurs(index, ENTRY_END)
    /\ \E i \in 1..Len(index) : index[i].k = "open"

(***************************************************************************)
(* C5.  Publishing a date twice running, with descriptions x then y,       *)
(* leaves exactly one entry for the date, carrying y, and the same         *)
(* document as publishing it once with y.                                  *)
(***************************************************************************)
C5_RepublishIdempotent ==
    \A i \in 1..(Len(pubs) - 1) :
        pubs[i].date = pubs[i + 1].date
        => LET d   == pubs[i].date
               doc == pubs[i + 1].after
               e   == parse_existing_entries(doc)
           IN  /\ d \in DOMAIN e
               /\ e[d] = pubs[i + 1].desc
               /\ Cardinality({j \in 1..Len(CardsOf(doc)) : CardsOf(doc)[j].s = d}) = 1
               /\ doc = UpdateResult(pubs[i].before, d, pubs[i + 1].desc).html

(***************************************************************************)
(* C6.  Missing markers is the only fatal error of update_index: for a     *)
(* document holding both markers, whatever stands between them,            *)
(* update_index writes the regenerated document and does not end the       *)
(* process.                                                                *)
(***************************************************************************)
C6_OnlyMarkersFatal ==
    (UpdateIndexOver /\ Occurs(run0.index, ENTRY_START) /\ Occurs(run0.index, ENTRY_END))
    => /\ \E i \in 1..Len(events) : events[i] = "index"
       /\ error # "ValueError"

(***************************************************************************)
(* C7.  With a date string that fails validation or a source file that     *)
(* does not exist, main exits with status 1 before any effect: no archive  *)
(* copy, no wrapper page, the index untouched, no git command; the date is *)
(* checked before the source file, and both before the first write.        *)
(***************************************************************************)
C7_ValidationBeforeEffects ==
    (pc # "idle" /\ (~strptime(args.date).ok \/ ~source_exists))
    => /\ pc \in {"validate", "check_source", "exited"}
       /\ events = <<>>
       /\ git = <<>>
       /\ FilesAsFound
       /\ pc = "exited"
          => /\ exit_status = 1
             /\ error = IF ~strptime(args.date).ok THEN "Invalid date format"
                        ELSE "Source file not found"

C7_Witness ==
    /\ pc = "exited"
    /\ ~strptime(args.date).ok
    /\ ~source_exists
    /\ emails # NoFiles

(***************************************************************************)
(* C8 as stated.  In a run without --no-push whose git commands all        *)
(* succeed, the steps after the index is written are add, commit (if and   *)
(* only if something is staged), pull --rebase and push, the last two in   *)
(* every such run.                                                         *)
(***************************************************************************)
C8_PushInEveryRun ==
    (pc = "done" /\ ~args.no_push)
    => events = <<"copy", "wrapper", "index", "add", "diff">>
                \o (IF diff_rc # 0 THEN <<"commit">> ELSE <<>>)
                \o <<"pull", "push">>

(***************************************************************************)
(* C8 amended.  In a run without --no-push whose git commands all succeed, *)
(* the git steps follow the writing of the index in the order add, diff,   *)
(* and then commit, pull --rebase and push if and only if something is     *)
(* staged: with nothing staged none of the three is performed.             *)
(***************************************************************************)
C8_GitOrder ==
    /\ (pc = "done" /\ ~args.no_push)
       => events = <<"copy", "wrapper", "index", "add", "diff">>
                   \o (IF diff_rc # 0 THEN <<"commit", "pull", "push">> ELSE <<>>)
    /\ \A i \in 1..Len(events) :
          events[i] \in GitCommands \cup {"diff"}
          => \E j \in 1..(i - 1) : events[j] = "index"

C8_Witness ==
    /\ pc = "done"
    /\ ~args.no_push
    /\ diff_rc = 0
    /\ Len(git) = 2

(***************************************************************************)
(* C9 as stated.  When git add, commit, pull --rebase or push fails with   *)
(* status s, the run stops there: no later git command, the files stay as  *)
(* written, and the exit status of the process is s.                       *)
(***************************************************************************)
C9_StatusPropagated ==
    \A i \in 1..Len(git) :
        (git[i].cmd \in GitCommands /\ git[i].rc # 0)
        => /\ i = Len(git)
           /\ pc = "exited"
           /\ exit_status = git[i].rc
           /\ index = pubs[Len(pubs)].after

(***************************************************************************)
(* C9 amended.  When git add, commit, pull --rebase or push fails with     *)
(* status s, the run stops there: no later git command, the files stay as  *)
(* written, and the process ends on the uncaught CalledProcessError, with  *)
(* exit status 1 whatever s is.                                            *)
(***************************************************************************)
C9_AbortOnGitFailure ==
    \A i \in 1..Len(git) :
        (git[i].cmd \in GitCommands /\ git[i].rc # 0)
        => /\ i = Len(git)
           /\ pc = "exited"
           /\ exit_status = 1
           /\ error = "CalledProcessError"
           /\ index = pubs[Len(pubs)].after
           /\ args.date \in DOMAIN emails
           /\ args.date \in DOMAIN wrappers

C9_Witness ==
    /\ pc = "exited"
    /\ Len(git) = 4
    /\ git[4].cmd = "pull"
    /\ git[4].rc = 128

(***************************************************************************)
(* C10.  extract_description returns the fragments of exactly the patterns *)
(* that match the text (tags stripped, whitespace collapsed), in the order *)
(* tickers, stock market, crypto, trades, joined by the separator; it      *)
(* returns the fallback if and only if no pattern matches.                 *)
(***************************************************************************)
FragmentKind(p) == CASE p = 1 -> "tickers analyzed"
                     [] p = 2 -> "Market sentiment"
                     [] p = 3 -> "Crypto"
                     [] p = 4 -> "congress trades tracked"

C10_FragmentsOfMatches ==
    pc = "extract_out"
    => LET text    == CollapseWS(StripTags(source_html))
           matched == {p \in 1..4 : \E i \in 1..Len(text) : PatternAt(p, text, i).ok}
           n       == Cardinality(matched)
       IN  /\ (matched = {}) <=> (description = Fallback)
           /\ matched # {}
              => /\ Len(description) = 2 * n - 1
                 /\ \A i \in 1..(n - 1) : description[2 * i] = Middot
                 /\ \A i \in 1..n :
                       \E p \in matched :
                          /\ description[2 * i - 1].k = FragmentKind(p)
                          /\ Cardinality({q \in matched : q < p}) = i - 1
                          /\ description[2 * i - 1].n = <<Search(p, text).n>>

C10_Witness ==
    /\ pc = "extract_out"
    /\ Len(description) = 3
    /\ description[1].k = "Market sentiment"
    /\ description[3].k = "congress trades tracked"
    /\ \E i \in 1..Len(source_html) : source_html[i] = Word("Total")

=============================================================================
